---- MODULE Spec2Model ----
(***************************************************************************)
(* Codebase state manager: the state service (genesis, new_state_transition *)
(* and arbitrary_state_transition) over the relational (SQLite) and graph   *)
(* (Neo4j) repositories, with two callers.  new_state_transition calls of   *)
(* the two callers overlap step by step (the stress test runs them on       *)
(* threads); a jump runs while no other call is in flight, and so does a    *)
(* repair_consistency, but for a genesis, which is one step.                *)
(*                                                                          *)
(* Abstractions: a SHA-256 digest is an opaque token; the state hash is the *)
(* tuple of the fields it is computed from (collision free); a prompt is a  *)
(* sequence of one-character strings; git_diff_info is the record of its    *)
(* added / modified / deleted lists (content_diffs bodies are left out).    *)
(***************************************************************************)
EXTENDS Integers, Sequences, FiniteSets, TLC

\* ------------------------------------------------------------------ bounds
MaxStateNumber == 2
MaxJumps == 1
MaxEdits == 1
MaxOverrun == 1
TickStep == 30
MaxTime == 90

\* --------------------------------------------------------------- constants
Callers == {"A", "B"}
Backends == {"sqlite", "neo4j"}
Paths == {"main.py"}
Absent == "absent"
Tombstone == "null"
Branches == {"main", "dev"}
NoState == -1
NoPtr == -1
NoLock == "none"
max_retries == 5
MAX_PROMPT_LENGTH == 10000

\* characters that have no TLA+ string literal are named: TAB, LF, BACKTICK
CONTROL_CHARS == {"TAB"}
INJECTION_CHARS == {";", "&", "|", "BACKTICK", "$", "LF"}
WHITESPACE == {" "}

ARBITRARY_PROMPT ==
  <<"A","r","b","i","t","r","a","r","y"," ","t","r","a","n","s","i","t","i","o","n">>
GENESIS_PROMPT ==
  <<"G","e","n","e","s","i","s"," ","s","t","a","t","e"," ","-"," ",
    "S","t","a","t","e"," ","m","a","c","h","i","n","e"," ",
    "i","n","i","t","i","a","l","i","z","e","d">>
GENESIS_BRANCH == "codebase-state-machine"

\* Prompts the callers pass: a plain one, one with an injection character and
\* the empty prompt (None and "" behave alike in the code paths modelled).
PromptInputs == { <<"o","k">>, <<"a",";">>, <<>> }

\* Prompts passed to a jump: none (None and "" behave alike)
JumpPrompts == { <<>> }

\* A path is its anchor (absolute or not) and its parts.  The project path
\* is the working directory of the server; the volume path comes from the
\* settings: absolute and outside the project, absolute and inside it, the
\* project itself, or relative (the default, "./data/codebase_state_volume"),
\* which the file system resolves against the working directory.
ProjectPath == [abs |-> TRUE, parts |-> <<"proj">>]
VolumePaths ==
  { [abs |-> TRUE,  parts |-> <<"vol">>],
    [abs |-> TRUE,  parts |-> <<"proj", "vol">>],
    [abs |-> TRUE,  parts |-> <<"proj">>],
    [abs |-> FALSE, parts |-> <<"data", "vol">>] }

\* ------------------------------------------------------------ pure helpers
\* pathlib: path / name
Join(path, name) == [path EXCEPT !.parts = Append(@, name)]

\* pathlib PurePath.is_relative_to: same anchor and other's parts a prefix
IsRelativeTo(path, other) ==
  /\ path.abs = other.abs
  /\ Len(other.parts) <= Len(path.parts)
  /\ SubSeq(path.parts, 1, Len(other.parts)) = other.parts

\* where the file system finds a path: a relative one under the working
\* directory
Resolve(path) ==
  IF path.abs THEN path
  ELSE [abs |-> TRUE, parts |-> ProjectPath.parts \o path.parts]

MaxOf(S) == CHOOSE x \in S : \A y \in S : y <= x
MinOf(S) == CHOOSE x \in S : \A y \in S : x <= y

EmptyMap == <<>>

RECURSIVE lstrip(_)
lstrip(s) == IF s # <<>> /\ Head(s) \in WHITESPACE THEN lstrip(Tail(s)) ELSE s

RECURSIVE rstrip(_)
rstrip(s) ==
  IF s # <<>> /\ s[Len(s)] \in WHITESPACE THEN rstrip(SubSeq(s, 1, Len(s) - 1)) ELSE s

strip(s) == rstrip(lstrip(s))

IsControl(c) == c \in CONTROL_CHARS

\* validation.sanitize_prompt: [ok |-> FALSE] stands for ValidationError
sanitize_prompt(prompt) ==
  IF prompt = <<>>
  THEN [ok |-> FALSE, value |-> <<>>]
  ELSE LET cleaned == SelectSeq(prompt, LAMBDA c : ~IsControl(c))
       IN IF \E i \in 1..Len(cleaned) : cleaned[i] \in INJECTION_CHARS
          THEN [ok |-> FALSE, value |-> <<>>]
          ELSE [ok |-> TRUE,
                value |-> strip(IF Len(cleaned) > MAX_PROMPT_LENGTH
                                THEN SubSeq(cleaned, 1, MAX_PROMPT_LENGTH)
                                ELSE cleaned)]

\* validation.validate_state_number: TRUE when no ValidationError is raised
validate_state_number(state, max_states) ==
  /\ state >= 0
  /\ state < max_states

\* validation.validate_state_range: TRUE when no ValidationError is raised
validate_state_range(from_state, to_state, max_states) ==
  /\ from_state >= 0 /\ to_state >= 0
  /\ from_state < max_states /\ to_state < max_states
  /\ from_state # to_state

\* hash.generate_state_hash
generate_state_hash(user_prompt, branch_name, git_diff_info, state_number) ==
  <<state_number, user_prompt, branch_name, git_diff_info>>

BlankDiff == [added |-> {}, modified |-> {}, deleted |-> {}]

\* the fingerprint map of a working tree: only the paths that are present
HashesOf(t) == [p \in {q \in DOMAIN t : t[q] # Absent} |-> t[p]]

\* mutant of ComputeDelta: files that are gone are not marked
ComputeDelta_m(last, current) ==
  [p \in {q \in DOMAIN current : q \notin DOMAIN last \/ last[q] # current[q]}
     |-> current[p]]

\* git_manager.compute_changes_since_last_state, is_genesis = False, delta part
ComputeDelta(last, current) ==
  [p \in {q \in DOMAIN current : q \notin DOMAIN last \/ last[q] # current[q]}
        \cup {q \in DOMAIN last : q \notin DOMAIN current}
     |-> IF p \in DOMAIN current THEN current[p] ELSE Tombstone]

\* git_manager.compute_changes_since_last_state, is_genesis = False, diff lists
ComputeDiffInfo(last, current) ==
  [added    |-> {p \in DOMAIN current : p \notin DOMAIN last},
   modified |-> {p \in DOMAIN current : p \in DOMAIN last /\ last[p] # current[p]},
   deleted  |-> {p \in DOMAIN last : p \notin DOMAIN current}]

\* mutant of ApplyDelta: a tombstone removes nothing
ApplyDelta_m(hashes, d) ==
  [p \in (DOMAIN hashes) \cup {q \in DOMAIN d : d[q] # Tombstone}
     |-> IF p \in DOMAIN d /\ d[p] # Tombstone THEN d[p] ELSE hashes[p]]

\* one step of the reconstruction fold: assign on digest, remove on tombstone
ApplyDelta(hashes, d) ==
  [p \in ((DOMAIN hashes) \ {q \in DOMAIN d : d[q] = Tombstone})
          \cup {q \in DOMAIN d : d[q] # Tombstone}
     |-> IF p \in DOMAIN d THEN d[p] ELSE hashes[p]]

\* ------------------------------------------------------------ rate limiter
Clients == {"default", "other"}
Endpoints ==
  {"genesis", "new_state_transition", "arbitrary_state_transition",
   "get_current_state_info"}

\* RateLimiter.DEFAULT_CONFIGS
DEFAULT_CONFIGS ==
  [e \in Endpoints |->
     CASE e = "genesis" -> [requests |-> 1, seconds |-> 60]
       [] e = "new_state_transition" -> [requests |-> 10, seconds |-> 60]
       [] e = "get_current_state_info" -> [requests |-> 30, seconds |-> 60]
       [] OTHER -> [requests |-> 5, seconds |-> 60]]

\* no RateLimitEntry yet for the pair (entry is None)
NoEntry == [count |-> 0, window_start |-> -1]

InitLimiter ==
  [clients |-> [k \in Clients \X Endpoints |-> NoEntry],
   now |-> 0,
   admitted |-> [k \in Clients \X Endpoints |-> <<>>]]

\* ------------------------------------------------------------------- state
VARIABLES
  backend,       \* which repository pair the service was built with
  volume_path,   \* the configured volume path (settings.volume_path)
  states,        \* states table / State nodes: state_number -> row
  transitions,   \* transitions table / TRANSITION relationships: set of rows
  current_ptr,   \* metadata row 'current_state' (SQLite), NoPtr when absent
  db_lock,       \* holder of the SQLite write lock (BEGIN IMMEDIATE), or NoLock
  flag,          \* the init flag file of the configured volume exists
  volume,        \* the volume directory: exists, codebase copy and its hashes
  tree,          \* the project working tree: path -> digest or Absent
  head,          \* the branch checked out in the project
  mirror,        \* a second storage, of the other backend, for runs that put
                 \* the same repository calls to both: tables and last result
  limiter,       \* the rate limiter: per (client, endpoint) entry, the clock
                 \* and the admissions still inside the last window length
  call,          \* per caller: position and locals of the running call
  last,          \* the result of the service call that finished most recently
  hist           \* history: the greatest number a successful
                 \* new_state_transition has returned, the jumps admitted,
                 \* the changes the user made to the project,
                 \* and for each stored snapshot the fingerprint map of the
                 \* working tree its creating call had read

vars == <<backend, volume_path, head, limiter, mirror, states, transitions, current_ptr, db_lock, flag, volume,
          tree, call, last, hist>>

IdleCall ==
  [pc |-> "idle", op |-> "none", cur |-> NoState, branch |-> "",
   prompt |-> <<>>, tprompt |-> <<>>, target |-> NoState, newnum |-> NoState,
   diff |-> BlankDiff, delta |-> EmptyMap, attempt |-> 0,
   hashes |-> EmptyMap, hit_lock |-> FALSE, overlaps |-> 0, peer |-> NoState,
   floor |-> NoState, fixes |-> {}, stamp |-> 0]

NoRet ==
  [op |-> "none", success |-> FALSE, state_number |-> NoState, msg |-> "",
   target |-> NoState, hit_lock |-> FALSE, peer |-> NoState, floor |-> NoState,
   value |-> {}, raised |-> ""]

\* everything but the configured volume path
InitStorage ==
  /\ backend \in Backends
  /\ states = EmptyMap
  /\ transitions = {}
  /\ current_ptr = NoPtr
  /\ db_lock = NoLock
  /\ flag = FALSE
  /\ volume = [exists |-> FALSE, codebase |-> FALSE, hashes |-> EmptyMap]
  /\ tree = [p \in Paths |-> "h1"]
  /\ head = "main"
  /\ limiter = InitLimiter
  /\ mirror = [states |-> EmptyMap, transitions |-> {}, current_ptr |-> NoPtr,
               result |-> NoRet]
  /\ call = [p \in Callers |-> IdleCall]
  /\ last = NoRet
  /\ hist = [max_returned |-> NoState, jumps |-> 0, edits |-> 0,
             trees |-> EmptyMap]

\* the service configured with an absolute volume path outside the project
Init ==
  /\ volume_path = [abs |-> TRUE, parts |-> <<"vol">>]
  /\ InitStorage

\* the service configured with any of the volume paths
InitAnyVolume ==
  /\ volume_path \in VolumePaths
  /\ InitStorage

\* ------------------------------------------------------ repository: states
EmptyRow ==
  [user_prompt |-> <<>>, branch_name |-> "", git_diff_info |-> BlankDiff,
   hash |-> <<>>, file_hashes |-> EmptyMap, file_hash_deltas |-> EmptyMap]

NewRow(user_prompt, branch_name, git_diff_info, hash, file_hashes, deltas) ==
  [user_prompt |-> user_prompt, branch_name |-> branch_name,
   git_diff_info |-> git_diff_info, hash |-> hash,
   file_hashes |-> file_hashes, file_hash_deltas |-> deltas]

Put(st, n, row) == [k \in (DOMAIN st) \cup {n} |-> IF k = n THEN row ELSE st[k]]

Remove(st, n) == [k \in (DOMAIN st) \ {n} |-> st[k]]

\* StateRepository.exists
Exists(st, n) == n \in DOMAIN st

\* StateRepository.count
Count(st) == Cardinality(DOMAIN st)

\* StateRepository.get_by_number: the State object built from a stored row.
\* SQLite does not pass file_hash_deltas to State(); Neo4j never stores
\* file_hashes, so the property is absent and the object carries none.
GetByNumber(b, st, n) ==
  IF b = "sqlite"
  THEN [st[n] EXCEPT !.file_hash_deltas = EmptyMap]
  ELSE [st[n] EXCEPT !.file_hashes = EmptyMap]

\* StateRepository.get_current: the state_number of the state returned, or
\* NoState for None
GetCurrent(b, st, ptr) ==
  IF b = "sqlite"
  THEN IF ptr # NoPtr
       THEN (IF Exists(st, ptr) THEN ptr ELSE NoState)
       ELSE IF DOMAIN st = {} THEN NoState ELSE MaxOf(DOMAIN st)
  ELSE IF DOMAIN st = {} \/ MaxOf(DOMAIN st) = 0
       THEN NoState
       ELSE MaxOf(DOMAIN st)

\* mutant of Create: no unique constraint on hash and no lookup by hash
Create_m(b, st, n, row) ==
  IF b = "sqlite"
  THEN IF n \in DOMAIN st
       THEN [ok |-> FALSE, st |-> st]
       ELSE [ok |-> TRUE, st |-> Put(st, n, row)]
  ELSE [ok |-> TRUE, st |-> Put(st, n, [row EXCEPT !.file_hashes = EmptyMap])]

\* StateRepository.create: [ok, st] = return value and the table afterwards
Create(b, st, n, row) ==
  IF b = "sqlite"
  THEN IF \E k \in DOMAIN st : st[k].hash = row.hash
       THEN [ok |-> TRUE, st |-> st]
       ELSE IF n \in DOMAIN st
            THEN [ok |-> FALSE, st |-> st]
            ELSE [ok |-> TRUE, st |-> Put(st, n, row)]
  ELSE IF \E k \in (DOMAIN st) \ {n} : st[k].hash = row.hash
       THEN [ok |-> FALSE, st |-> st]
       ELSE [ok |-> TRUE, st |-> Put(st, n, [row EXCEPT !.file_hashes = EmptyMap])]

\* the number create_next allocates: max(state_number) + 1, 0 on empty storage
NextStateNumber(st) == IF DOMAIN st = {} THEN 0 ELSE MaxOf(DOMAIN st) + 1

\* mutant of CreateNext: the hash is computed with the placeholder number 0
\* the service put on the State object
CreateNext_m(b, st, user_prompt, branch_name, git_diff_info, file_hashes, deltas) ==
  LET n == NextStateNumber(st)
      h == generate_state_hash(user_prompt, branch_name, git_diff_info, 0)
      row == NewRow(user_prompt, branch_name, git_diff_info, h,
                    IF b = "sqlite" THEN file_hashes ELSE EmptyMap, deltas)
  IN IF n \in DOMAIN st \/ \E k \in DOMAIN st : st[k].hash = h
     THEN [ok |-> FALSE, n |-> NoState, st |-> st]
     ELSE [ok |-> TRUE, n |-> n, st |-> Put(st, n, row)]

\* StateRepository.create_next inside its transaction: [ok, n, st]
CreateNext(b, st, user_prompt, branch_name, git_diff_info, file_hashes, deltas) ==
  LET n == NextStateNumber(st)
      h == generate_state_hash(user_prompt, branch_name, git_diff_info, n)
      row == NewRow(user_prompt, branch_name, git_diff_info, h,
                    IF b = "sqlite" THEN file_hashes ELSE EmptyMap, deltas)
  IN IF n \in DOMAIN st \/ \E k \in DOMAIN st : st[k].hash = h
     THEN [ok |-> FALSE, n |-> NoState, st |-> st]
     ELSE [ok |-> TRUE, n |-> n, st |-> Put(st, n, row)]

\* mutant of Delete: the rollback removes the latest snapshot, not the one
\* the failing call created
Delete_m(st, n) ==
  IF DOMAIN st = {} THEN st ELSE Remove(st, MaxOf(DOMAIN st))

\* StateRepository.delete
Delete(st, n) == Remove(st, n)

\* ------------------------------------------------- repository: transitions
\* mutant of NextTransitionId: the first id is 0
NextTransitionId_m(tr) ==
  IF tr = {} THEN 0 ELSE MaxOf({t.transition_id : t \in tr}) + 1

\* the id create_next allocates: max(transition_id) + 1, 1 on empty storage
NextTransitionId(tr) ==
  IF tr = {} THEN 1 ELSE MaxOf({t.transition_id : t \in tr}) + 1

NewTransition(id, current_state, next_state, user_prompt, timestamp) ==
  [transition_id |-> id, current_state |-> current_state, timestamp |-> timestamp,
   next_state |-> next_state, user_prompt |-> user_prompt]

\* mutant of TransitionCreateNext: the write of the edge saves its target
\* snapshot again, from the object get_by_number built
TransitionCreateNext_m(b, tr, st, current_state, next_state, user_prompt, timestamp) ==
  LET id == IF tr = {} THEN 1 ELSE MaxOf({t.transition_id : t \in tr}) + 1
  IN IF \E t \in tr : t.transition_id = id
     THEN [ok |-> FALSE, id |-> 0, tr |-> tr, st |-> st]
     ELSE [ok |-> TRUE, id |-> id,
           tr |-> tr \cup {[transition_id |-> id, current_state |-> current_state,
                            timestamp |-> timestamp,
                            next_state |-> next_state, user_prompt |-> user_prompt]},
           st |-> IF next_state \in DOMAIN st
                  THEN [st EXCEPT ![next_state] = GetByNumber(b, st, next_state)]
                  ELSE st]

\* TransitionRepository.create_next inside its transaction: [ok, id, tr, st].
\* The Neo4j query MERGEs both endpoint nodes, creating them when missing.
TransitionCreateNext(b, tr, st, current_state, next_state, user_prompt, timestamp) ==
  LET id == NextTransitionId(tr)
      merged == [k \in (DOMAIN st) \cup {current_state, next_state} |->
                   IF k \in DOMAIN st THEN st[k] ELSE EmptyRow]
  IN IF \E t \in tr : t.transition_id = id
     THEN [ok |-> FALSE, id |-> 0, tr |-> tr, st |-> st]
     ELSE [ok |-> TRUE, id |-> id,
           tr |-> tr \cup {NewTransition(id, current_state, next_state, user_prompt,
                                         timestamp)},
           st |-> IF b = "sqlite" THEN st ELSE merged]

\* ----------------------------------------------------------------- service
RECURSIVE FoldDeltas(_, _, _, _, _)
FoldDeltas(b, st, k, upto, acc) ==
  IF k > upto
  THEN acc
  ELSE FoldDeltas(b, st, k + 1, upto,
                  IF Exists(st, k)
                  THEN ApplyDelta(acc, GetByNumber(b, st, k).file_hash_deltas)
                  ELSE acc)

\* StateService._reconstruct_file_hashes(from_state), genesis stored: the
\* file_hashes of the genesis State object, then the file_hash_deltas of the
\* State objects 1..from_state, each as get_by_number builds it
ReconstructFileHashes(b, st, from_state) ==
  FoldDeltas(b, st, 1, from_state, GetByNumber(b, st, 0).file_hashes)

\* StateService._get_previous_state_full_hashes: found = FALSE stands for
\* StateNotFoundError
PreviousStateFullHashes(b, st, cur) ==
  IF cur = 0
  THEN [found |-> TRUE, hashes |-> EmptyMap]
  ELSE IF ~Exists(st, 0)
       THEN [found |-> FALSE, hashes |-> EmptyMap]
       ELSE [found |-> TRUE,
             hashes |-> FoldDeltas(b, st, 1, cur - 1,
                                   GetByNumber(b, st, 0).file_hashes)]

\* history: snapshot n was created from a working tree with fingerprints h;
\* before and st are the table before and afterwards (a create that stored
\* nothing records nothing), entries of removed snapshots are dropped
TreesWith(trees, before, st, n, h) ==
  IF st = before
  THEN trees
  ELSE [k \in ((DOMAIN trees) \cap (DOMAIN st)) \cup {n} |->
          IF k = n THEN h ELSE trees[k]]

TreesKept(trees, st) ==
  [k \in (DOMAIN trees) \cap (DOMAIN st) |-> trees[k]]

\* the result caller p's call hands back: (success, state, message), with
\* the operation, its target argument and what the call went through:
\* hit_lock, the call met 'database is locked'; and for a success, peer, the
\* number returned by the one call it overlapped, and floor, the greatest
\* number returned before it was invoked
Ret(p, c, success, num, msg) ==
  [op |-> c.op, success |-> success, state_number |-> num, msg |-> msg,
   target |-> c.target, hit_lock |-> c.hit_lock,
   peer |-> IF success /\ c.overlaps = 1 THEN c.peer ELSE NoState,
   floor |-> IF success THEN c.floor ELSE NoState,
   value |-> {}, raised |-> ""]

\* the call of caller p does not return: exception exc leaves the service
Raise(p, c, exc) ==
  [Ret(p, c, FALSE, NoState, "") EXCEPT !.raised = exc]

Busy(q) == call[q].pc # "idle"

\* caller p leaves "idle" with locals c: every running call overlaps it
Enter(p, c) ==
  [q \in Callers |->
     IF q = p
     THEN [c EXCEPT !.overlaps = Cardinality({r \in Callers \ {p} : Busy(r)})]
     ELSE IF Busy(q)
          THEN [call[q] EXCEPT !.overlaps = IF @ < 2 THEN @ + 1 ELSE @]
          ELSE call[q]]

\* caller p's call returns r
Finish(p, r) ==
  /\ call' = [call EXCEPT ![p] = IdleCall]
  /\ last' = r

\* caller p's new_state_transition returns success with snapshot n: when
\* the call overlapped one call only, that call, still running, learns its
\* peer's number
FinishNst(p, r, n) ==
  /\ call' = [q \in Callers |->
                IF q = p THEN IdleCall
                ELSE IF Busy(q) /\ call[q].op = "nst" /\ call[p].overlaps = 1
                     THEN [call[q] EXCEPT !.peer = n]
                     ELSE call[q]]
  /\ last' = r

\* mutant of is_initialized: the flag file is never found
is_initialized_m(f) == FALSE

\* init_manager.is_initialized: the flag file of the volume exists
is_initialized(f) == f

\* StateService.genesis. inside: the check the code makes of the volume path,
\* target_path.is_relative_to(source_path);
\* is_repo: the project is a git repository, and then git reports head;
\* fail: the step that fails, if any.  An input the call returns before
\* reading is held at one value.
\* fail = "get_current_branch": git branch --show-current in the project times out, and
\* _run_git_command raises GitTimeoutError, which genesis does not catch.
Genesis(p, is_repo, fail) ==
  /\ call[p].pc = "idle"
  /\ LET inside == IsRelativeTo(Join(volume_path, "codebase"), ProjectPath)
     IN (is_initialized(flag) \/ inside) => (is_repo /\ fail = "none")
  /\ fail = "get_current_branch" => is_repo
  /\ LET inside == IsRelativeTo(Join(volume_path, "codebase"), ProjectPath)
         c == [IdleCall EXCEPT !.op = "genesis"]
         branch_name == IF is_repo THEN head ELSE GENESIS_BRANCH
         file_hashes == HashesOf(tree)
         h == generate_state_hash(GENESIS_PROMPT, branch_name, BlankDiff, 0)
         state_0 == NewRow(GENESIS_PROMPT, branch_name, BlankDiff, h,
                           file_hashes, file_hashes)
         created == Create(backend, states, 0, state_0)
         made == [exists |-> TRUE, codebase |-> FALSE, hashes |-> EmptyMap]
         cloned == [exists |-> TRUE, codebase |-> TRUE, hashes |-> file_hashes]
     IN IF is_initialized(flag)
        THEN /\ Finish(p, Ret(p, c, FALSE, NoState, "already initialized"))
             /\ UNCHANGED <<states, flag, volume, hist>>
        ELSE IF inside
        THEN /\ Finish(p, Ret(p, c, FALSE, NoState, "volume inside project"))
             /\ UNCHANGED <<states, flag, volume, hist>>
        ELSE IF fail = "clone"
        THEN /\ Finish(p, Ret(p, c, FALSE, NoState, "failed to clone"))
             /\ volume' = made
             /\ UNCHANGED <<states, flag, hist>>
        ELSE IF fail = "init_repo"
        THEN /\ Finish(p, Ret(p, c, FALSE, NoState, "failed to init repo"))
             /\ volume' = cloned
             /\ UNCHANGED <<states, flag, hist>>
        ELSE IF fail = "get_current_branch"
        THEN /\ Finish(p, Raise(p, c, "GitTimeoutError"))
             /\ volume' = cloned
             /\ UNCHANGED <<states, flag, hist>>
        ELSE IF fail = "create" \/ ~created.ok
        THEN /\ Finish(p, Ret(p, c, FALSE, NoState, "failed to save genesis"))
             /\ volume' = cloned
             /\ UNCHANGED <<states, flag, hist>>
        ELSE IF fail = "flag"
        THEN /\ Finish(p, Ret(p, c, FALSE, NoState, "failed to set flag"))
             /\ volume' = cloned
             /\ states' = created.st
             /\ hist' = [hist EXCEPT !.trees = TreesWith(@, states, created.st, 0, file_hashes)]
             /\ UNCHANGED flag
        ELSE /\ Finish(p, Ret(p, c, TRUE, 0, "genesis created"))
             /\ volume' = cloned
             /\ states' = created.st
             /\ hist' = [hist EXCEPT !.trees = TreesWith(@, states, created.st, 0, file_hashes)]
             /\ flag' = TRUE
  /\ UNCHANGED <<backend, volume_path, head, mirror, transitions, current_ptr, db_lock, tree>>

\* what the body of a create_next does when BEGIN IMMEDIATE raises
\* OperationalError('database is locked'): its own except clause rolls back
\* and returns False, so the error never reaches the retry wrapper
BodyOnLocked == "return_false"

\* retry.retry_on_lock: what the wrapper does with the body's outcome on the
\* given attempt (0-based): call the body again, re-raise, or hand back
retry_on_lock(outcome, attempt) ==
  IF outcome = "raise_locked"
  THEN (IF attempt < max_retries THEN "retry" ELSE "raise")
  ELSE "return"

\* the calls that have been admitted and not yet written their snapshot
Allocating == {q \in Callers : call[q].pc \in {"state_begin", "state_tx"}}

\* StateService.new_state_transition up to the first storage write: the
\* init check, get_current, the baseline, the delta and the prompt check
NstStart(p, user_prompt) ==
  /\ call[p].pc = "idle"
  /\ NextStateNumber(states) + Cardinality(Allocating) <= MaxStateNumber
  /\ \A q \in Callers : call[q].op \notin {"jump", "repair"}
  /\ LET cur == GetCurrent(backend, states, current_ptr)
         c0 == [IdleCall EXCEPT !.op = "nst", !.cur = cur,
                                !.floor = hist.max_returned]
     IN IF ~flag
        THEN Finish(p, Ret(p, c0, FALSE, NoState, "not initialized"))
        ELSE IF cur = NoState
        THEN Finish(p, Ret(p, c0, FALSE, NoState, "no current state"))
        ELSE LET current_state == GetByNumber(backend, states, cur)
                 prev == PreviousStateFullHashes(backend, states, cur)
                 last_hashes == IF prev.found THEN prev.hashes
                                ELSE IF volume.codebase THEN volume.hashes
                                ELSE EmptyMap
                 current_hashes == HashesOf(tree)
                 sanitized == sanitize_prompt(user_prompt)
                 c == [c0 EXCEPT !.pc = "state_begin",
                                 !.branch = current_state.branch_name,
                                 !.prompt = sanitized.value,
                                 !.hashes = current_hashes,
                                 !.diff = ComputeDiffInfo(last_hashes, current_hashes),
                                 !.delta = ComputeDelta(last_hashes, current_hashes)]
             IN IF ~sanitized.ok
                THEN Finish(p, Ret(p, c0, FALSE, NoState, "invalid prompt"))
                ELSE /\ call' = Enter(p, c)
                     /\ UNCHANGED last
  /\ UNCHANGED <<backend, volume_path, head, mirror, states, transitions, current_ptr, db_lock, flag,
                 volume, tree, hist>>

\* the outcomes of opening a write transaction: "ok"; "locked" when another
\* caller holds the SQLite write lock; "error" for any other failure
TxOutcomes(p) ==
  {"ok", "error"} \cup
  (IF backend = "sqlite" /\ db_lock \notin {NoLock, p} THEN {"locked"} ELSE {})

\* how a create_next call ends when its transaction could not be opened:
\* "retry", "false" (returns False) or "raise"
CreateNextFailure(outcome, attempt) ==
  IF outcome = "locked"
  THEN LET body == IF BodyOnLocked = "return_false" THEN "return_false"
                                                    ELSE "raise_locked"
           w == retry_on_lock(body, attempt)
       IN IF w = "retry" THEN "retry" ELSE IF w = "raise" THEN "raise" ELSE "false"
  ELSE "false"

\* state_repo.create_next, opening the transaction (BEGIN IMMEDIATE)
NstStateBegin(p, outcome) ==
  /\ call[p].pc = "state_begin"
  /\ outcome \in TxOutcomes(p)
  /\ LET c == [call[p] EXCEPT !.hit_lock = @ \/ outcome = "locked"]
         how == CreateNextFailure(outcome, c.attempt)
     IN IF outcome = "ok"
        THEN /\ backend = "sqlite" => db_lock = NoLock
             /\ db_lock' = IF backend = "sqlite" THEN p ELSE db_lock
             /\ call' = [call EXCEPT ![p] = [c EXCEPT !.pc = "state_tx"]]
             /\ UNCHANGED last
        ELSE IF how = "retry"
        THEN /\ call' = [call EXCEPT ![p] = [c EXCEPT !.attempt = @ + 1]]
             /\ UNCHANGED <<last, db_lock>>
        ELSE IF how = "raise"
        THEN /\ Finish(p, Ret(p, c, FALSE, NoState, "atomic operation failed"))
             /\ UNCHANGED db_lock
        ELSE /\ Finish(p, Ret(p, c, FALSE, NoState, "failed to create new state"))
             /\ UNCHANGED db_lock
  /\ UNCHANGED <<backend, volume_path, head, mirror, limiter, states, transitions, current_ptr, flag, volume,
                 tree, hist>>

\* now_utc(), the timestamp a Transition object takes when it is constructed:
\* a clock reading later than the one of every Transition constructed before
\* it that is stored or still about to be inserted
now_utc ==
  MaxOf({0} \cup {t.timestamp : t \in transitions}
            \cup {call[q].stamp : q \in Callers}) + 1

\* mutant of NstStateCommit: the service numbers the snapshot current + 1
\* itself and saves it with StateRepository.create
NstStateCommit_m(p) ==
  /\ call[p].pc = "state_tx"
  /\ LET c == call[p]
         n == c.cur + 1
         h == generate_state_hash(c.prompt, c.branch, c.diff, n)
         r == Create(backend, states, n,
                     NewRow(c.prompt, c.branch, c.diff, h, EmptyMap, c.delta))
     IN IF r.ok
        THEN /\ states' = r.st
             /\ hist' = [hist EXCEPT !.trees = TreesWith(@, states, r.st, n, c.hashes)]
             /\ call' = [call EXCEPT ![p] = [c EXCEPT !.pc = "edge_begin",
                                                      !.newnum = n,
                                                      !.stamp = now_utc,
                                                      !.attempt = 0]]
             /\ UNCHANGED last
        ELSE /\ Finish(p, Ret(p, c, FALSE, NoState, "failed to create new state"))
             /\ UNCHANGED <<states, hist>>
  /\ db_lock' = IF db_lock = p THEN NoLock ELSE db_lock
  /\ UNCHANGED <<backend, volume_path, head, mirror, limiter, transitions, current_ptr, flag, volume, tree>>

\* state_repo.create_next, the transaction body and its commit
NstStateCommit(p) ==
  /\ call[p].pc = "state_tx"
  /\ LET c == call[p]
         r == CreateNext(backend, states, c.prompt, c.branch, c.diff,
                         EmptyMap, c.delta)
     IN IF r.ok
        THEN /\ states' = r.st
             /\ hist' = [hist EXCEPT !.trees = TreesWith(@, states, r.st, r.n, c.hashes)]
             /\ call' = [call EXCEPT ![p] = [c EXCEPT !.pc = "edge_begin",
                                                      !.newnum = r.n,
                                                      !.stamp = now_utc,
                                                      !.attempt = 0]]
             /\ UNCHANGED last
        ELSE /\ Finish(p, Ret(p, c, FALSE, NoState, "failed to create new state"))
             /\ UNCHANGED <<states, hist>>
  /\ db_lock' = IF db_lock = p THEN NoLock ELSE db_lock
  /\ UNCHANGED <<backend, volume_path, head, mirror, limiter, transitions, current_ptr, flag, volume, tree>>

\* mutant of JumpCheck: only validate_state_number is applied
JumpCheck_m(st, cur, next_state) ==
  IF ~validate_state_number(next_state, Count(st))
  THEN "invalid state number"
  ELSE "ok"

\* StateService.arbitrary_state_transition, the validations of the target:
\* validate_state_number against count(), get_by_number, and
\* validate_state_range, which is called only when target and current differ
JumpCheck(st, cur, next_state) ==
  IF ~validate_state_number(next_state, Count(st))
  THEN "invalid state number"
  ELSE IF ~Exists(st, next_state)
  THEN "state not found"
  ELSE IF cur # next_state /\ ~validate_state_range(cur, next_state, Count(st))
  THEN "invalid transition"
  ELSE "ok"

\* StateService.arbitrary_state_transition up to the storage write: the init
\* check, get_current, count, the validations and the placeholder prompt
JumpCall(p, next_state, user_prompt) ==
  /\ call[p].pc = "idle"
  /\ hist.jumps < MaxJumps
  /\ LET cur == GetCurrent(backend, states, current_ptr)
         checked == JumpCheck(states, cur, next_state)
         transition_prompt == IF user_prompt = <<>> THEN ARBITRARY_PROMPT
                                                    ELSE user_prompt
         c0 == [IdleCall EXCEPT !.op = "jump", !.cur = cur,
                                !.target = next_state,
                                !.floor = hist.max_returned]
         c == [c0 EXCEPT !.pc = "edge_begin", !.tprompt = transition_prompt,
                         !.stamp = now_utc]
     IN IF ~flag
        THEN /\ Finish(p, Ret(p, c0, FALSE, NoState, "not initialized"))
             /\ UNCHANGED hist
        ELSE IF cur = NoState
        THEN /\ Finish(p, Ret(p, c0, FALSE, NoState, "no current state"))
             /\ UNCHANGED hist
        ELSE IF checked # "ok"
        THEN /\ Finish(p, Ret(p, c0, FALSE, NoState, checked))
             /\ UNCHANGED hist
        ELSE /\ call' = Enter(p, c)
             /\ hist' = [hist EXCEPT !.jumps = @ + 1]
             /\ UNCHANGED last
  /\ UNCHANGED <<backend, volume_path, head, mirror, states, transitions, current_ptr, db_lock, flag,
                 volume, tree>>

\* arbitrary_state_transition called while no other call is in flight
JumpStart(p, next_state, user_prompt) ==
  /\ \A q \in Callers \ {p} : ~Busy(q)
  /\ JumpCall(p, next_state, user_prompt)

\* transition_repo.create_next, opening the transaction (BEGIN IMMEDIATE)
EdgeBegin(p, outcome) ==
  /\ call[p].pc = "edge_begin"
  /\ outcome \in TxOutcomes(p)
  /\ LET c == [call[p] EXCEPT !.hit_lock = @ \/ outcome = "locked"]
         how == CreateNextFailure(outcome, c.attempt)
     IN IF outcome = "ok"
        THEN /\ backend = "sqlite" => db_lock = NoLock
             /\ db_lock' = IF backend = "sqlite" THEN p ELSE db_lock
             /\ call' = [call EXCEPT ![p] = [c EXCEPT !.pc = "edge_tx"]]
             /\ UNCHANGED last
        ELSE IF how = "retry"
        THEN /\ call' = [call EXCEPT ![p] = [c EXCEPT !.attempt = @ + 1]]
             /\ UNCHANGED <<last, db_lock>>
        ELSE IF how = "raise"
        THEN /\ Finish(p, Ret(p, c, FALSE, NoState, "atomic operation failed"))
             /\ UNCHANGED db_lock
        ELSE IF c.op = "nst"
        THEN /\ call' = [call EXCEPT ![p] = [c EXCEPT !.pc = "rollback"]]
             /\ UNCHANGED <<last, db_lock>>
        ELSE /\ Finish(p, Ret(p, c, FALSE, NoState, "failed to create transition"))
             /\ UNCHANGED db_lock
  /\ UNCHANGED <<backend, volume_path, head, mirror, limiter, states, transitions, current_ptr, flag, volume,
                 tree, hist>>

\* the edge a call inserts: (current -> new snapshot) with the sanitized
\* prompt, or (current -> target) with the caller's transition prompt
EdgeNext(c) == IF c.op = "nst" THEN c.newnum ELSE c.target

EdgePrompt(c) == IF c.op = "nst" THEN c.prompt ELSE c.tprompt

\* transition_repo.create_next, the transaction body and its commit, and the
\* rest of the call: the success result and, for new_state_transition, the
\* best-effort sync of the project tree into the volume copy
EdgeCommit(p, sync_ok) ==
  /\ call[p].pc = "edge_tx"
  /\ LET c == call[p]
         r == TransitionCreateNext(backend, transitions, states, c.cur,
                                   EdgeNext(c), EdgePrompt(c), c.stamp)
     IN IF r.ok
        THEN /\ transitions' = r.tr
             /\ states' = r.st
             /\ IF c.op = "nst"
                THEN FinishNst(p, Ret(p, c, TRUE, c.newnum, "transition successful"),
                               c.newnum)
                ELSE Finish(p, Ret(p, c, TRUE, c.target, "transition successful"))
             /\ hist' = [hist EXCEPT
                           !.max_returned = IF c.op = "nst" /\ c.newnum > @
                                            THEN c.newnum ELSE @]
             /\ volume' = IF c.op = "nst" /\ volume.codebase /\ sync_ok
                           THEN [volume EXCEPT !.hashes = HashesOf(tree)]
                           ELSE volume
        ELSE IF c.op = "nst"
        THEN /\ call' = [call EXCEPT ![p] = [c EXCEPT !.pc = "rollback"]]
             /\ UNCHANGED <<transitions, states, hist, volume, last>>
        ELSE /\ Finish(p, Ret(p, c, FALSE, NoState, "failed to create transition"))
             /\ UNCHANGED <<transitions, states, hist, volume>>
  /\ db_lock' = IF db_lock = p THEN NoLock ELSE db_lock
  /\ UNCHANGED <<backend, volume_path, head, mirror, limiter, current_ptr, flag, tree>>

\* mutant of NstRollback: the delete takes the snapshot the call started from
NstRollback_m(p, outcome) ==
  /\ call[p].pc = "rollback"
  /\ outcome \in TxOutcomes(p)
  /\ outcome = "ok" => (backend = "sqlite" => db_lock = NoLock)
  /\ states' = IF outcome = "ok" THEN Delete(states, call[p].cur) ELSE states
  /\ hist' = [hist EXCEPT !.trees = TreesKept(@, states')]
  /\ Finish(p, Ret(p, call[p], FALSE, NoState, "state rolled back"))
  /\ UNCHANGED <<backend, volume_path, head, mirror, limiter, transitions, current_ptr, db_lock, flag, volume, tree>>

\* the rollback of new_state_transition: state_repo.delete of the snapshot
\* just created, whose result is ignored, then the failure result.  The
\* delete returns False on any exception, 'database is locked' among them.
NstRollback(p, outcome) ==
  /\ call[p].pc = "rollback"
  /\ outcome \in TxOutcomes(p)
  /\ outcome = "ok" => (backend = "sqlite" => db_lock = NoLock)
  /\ states' = IF outcome = "ok" THEN Delete(states, call[p].newnum) ELSE states
  /\ hist' = [hist EXCEPT !.trees = TreesKept(@, states')]
  /\ Finish(p, Ret(p, call[p], FALSE, NoState, "state rolled back"))
  /\ UNCHANGED <<backend, volume_path, head, mirror, limiter, transitions, current_ptr, db_lock, flag, volume, tree>>

\* ConsistencyChecker.set_current as the repair reaches it: the SQLite
\* repository stores the pointer when the state exists; the Neo4j repository
\* has no set_current, the AttributeError is caught and the fix fails
SetCurrent(b, st, ptr, n) ==
  IF b = "sqlite" /\ Exists(st, n) THEN n ELSE ptr

\* repair_consistency, first part of check_all: _check_initialization_flag
\* (states stored, volume there, flag missing: recreate_flag) and the
\* get_current of _check_current_state_pointer
RepairCheck(p) ==
  /\ call[p].pc = "idle"
  /\ \A q \in Callers \ {p} : ~Busy(q)
  /\ LET fixes == IF volume.exists /\ Count(states) > 0 /\ ~flag
                  THEN {"recreate_flag"} ELSE {}
         c == [IdleCall EXCEPT !.pc = "repair_fix", !.op = "repair",
                               !.cur = GetCurrent(backend, states, current_ptr),
                               !.fixes = fixes]
     IN call' = [call EXCEPT ![p] = c]
  /\ UNCHANGED <<backend, volume_path, head, mirror, limiter, states, transitions, current_ptr,
                 db_lock, flag, volume, tree, last, hist>>

\* repair_consistency, the rest: the count of _check_current_state_pointer
\* (no current state but states stored: reset_current_to_latest), then
\* auto_repair: set_initialized for recreate_flag, set_current of the
\* greatest stored number for reset_current_to_latest
RepairFix(p, outcome) ==
  /\ call[p].pc = "repair_fix"
  /\ outcome \in TxOutcomes(p)
  /\ LET c == call[p]
         fixes == c.fixes \cup
                  (IF c.cur = NoState /\ Count(states) > 0
                   THEN {"reset_current_to_latest"} ELSE {})
         reset == "reset_current_to_latest" \in fixes
     IN /\ (reset /\ outcome = "ok" /\ backend = "sqlite") => db_lock = NoLock
        /\ ~reset => outcome = "ok"
        /\ flag' = (flag \/ "recreate_flag" \in fixes)
        /\ current_ptr' =
             IF reset /\ outcome = "ok" /\ DOMAIN states # {}
             THEN SetCurrent(backend, states, current_ptr, MaxOf(DOMAIN states))
             ELSE current_ptr
        /\ call' = [call EXCEPT ![p] = IdleCall]
  /\ UNCHANGED <<backend, volume_path, head, mirror, limiter, states, transitions, db_lock, volume,
                 tree, last, hist>>

\* str.contains / CONTAINS: t is a substring of s
Contains(s, t) ==
  \E i \in 0..(Len(s) - Len(t)) : SubSeq(s, i + 1, i + Len(t)) = t

\* StateRepository.search: the numbers of the states whose prompt has text
Search(st, text) == {n \in DOMAIN st : Contains(st[n].user_prompt, text)}

\* TransitionRepository.get_by_id
GetById(tr, id) == {t.transition_id : t \in {u \in tr : u.transition_id = id}}

\* TransitionRepository.get_by_state: the edges that leave state n
GetByState(tr, n) == {t.transition_id : t \in {u \in tr : u.current_state = n}}

\* the place of edge u in ORDER BY timestamp DESC, 1 for the latest
Place(tr, u) == Cardinality({w \in tr : w.timestamp > u.timestamp}) + 1

\* TransitionRepository.get_last(limit): the edges with the limit latest
\* timestamps
GetLast(tr, limit) ==
  {t.transition_id : t \in {u \in tr : Place(tr, u) <= limit}}

\* get_last(limit) as the list it is: edge ids, latest timestamp first
GetLastList(tr, limit) ==
  [i \in 1..(IF Cardinality(tr) < limit THEN Cardinality(tr) ELSE limit) |->
     (CHOOSE u \in tr : Place(tr, u) = i).transition_id]

\* StateService.track_transitions: [] before genesis, else the ids of
\* transition_repo.get_last(5)
track_transitions(f, tr) ==
  IF ~is_initialized(f) THEN <<>> ELSE GetLastList(tr, 5)

Readers ==
  {"get_current_state", "get_current_state_number", "get_state_info",
   "total_states", "search_states", "get_state_transitions",
   "get_transition_info", "track_transitions"}

\* what a reader returns on an uninitialized volume: None, 0 or []
EmptyResult(reader) == IF reader = "total_states" THEN {0} ELSE {}

\* what a reader returns on an initialized volume, as the set of the numbers
\* or ids in it (a State stands as its number, None and [] as the empty set)
ReadValue(reader, n, text) ==
  CASE reader \in {"get_current_state", "get_current_state_number"} ->
         {GetCurrent(backend, states, current_ptr)} \ {NoState}
    [] reader = "get_state_info" -> {n} \cap DOMAIN states
    [] reader = "total_states" -> {Count(states)}
    [] reader = "search_states" -> Search(states, text)
    [] reader = "get_state_transitions" -> GetByState(transitions, n)
    [] reader = "get_transition_info" -> GetById(transitions, n)
    [] reader = "track_transitions" -> GetLast(transitions, 5)

\* mutant of Read: the readers skip the init check
Read_m(p, reader, n, text) ==
  /\ call[p].pc = "idle"
  /\ last' = [NoRet EXCEPT !.op = reader, !.success = TRUE, !.msg = "retrieved",
                           !.value = ReadValue(reader, n, text)]
  /\ UNCHANGED <<backend, volume_path, head, mirror, limiter, states, transitions, current_ptr,
                 db_lock, flag, volume, tree, call, hist>>

\* the readers of StateService: the init check, then one repository query
Read(p, reader, n, text) ==
  /\ call[p].pc = "idle"
  /\ last' = IF ~flag
             THEN [NoRet EXCEPT !.op = reader, !.msg = "not initialized",
                                !.value = EmptyResult(reader)]
             ELSE [NoRet EXCEPT !.op = reader, !.success = TRUE,
                                !.msg = "retrieved",
                                !.value = ReadValue(reader, n, text)]
  /\ UNCHANGED <<backend, volume_path, head, mirror, limiter, states, transitions, current_ptr,
                 db_lock, flag, volume, tree, call, hist>>

ReadNumbers == {0, 1}
ReadTexts == { <<"o">> }

\* the user changes the project between calls: a file gets new content,
\* appears or goes
TreeValues == {"h1", "h2", Absent}

EditTree(path, v) ==
  /\ tree[path] # v
  /\ hist.edits < MaxEdits
  /\ \A q \in Callers : ~Busy(q)
  /\ tree' = [tree EXCEPT ![path] = v]
  /\ hist' = [hist EXCEPT !.edits = @ + 1]
  /\ UNCHANGED <<backend, volume_path, head, mirror, limiter, states, transitions, current_ptr,
                 db_lock, flag, volume, call, last>>

\* the user checks out another branch of the project, between calls
Checkout(branch) ==
  /\ head # branch
  /\ hist.edits < MaxEdits
  /\ \A q \in Callers : ~Busy(q)
  /\ head' = branch
  /\ hist' = [hist EXCEPT !.edits = @ + 1]
  /\ UNCHANGED <<backend, volume_path, mirror, limiter, states, transitions,
                 current_ptr, db_lock, flag, volume, tree, call, last>>

\* ------------------------------------------------ rate limiter: operations
\* RateLimiter.is_allowed at time now: [allowed, clients afterwards]
is_allowed(clients, now, client_id, endpoint) ==
  LET config == DEFAULT_CONFIGS[endpoint]
      entry == clients[<<client_id, endpoint>>]
  IN IF entry = NoEntry \/ now - entry.window_start >= config.seconds
     THEN [allowed |-> TRUE,
           clients |-> [clients EXCEPT ![<<client_id, endpoint>>] =
                          [count |-> 1, window_start |-> now]]]
     ELSE [allowed |-> entry.count + 1 <= config.requests,
           clients |-> [clients EXCEPT ![<<client_id, endpoint>>].count = @ + 1]]

\* the times of the admissions of a pair that lie less than the window
\* length before time now
RECURSIVE Recent(_, _, _)
Recent(times, now, seconds) ==
  IF times = <<>>
  THEN <<>>
  ELSE IF now - Head(times) < seconds
       THEN times
       ELSE Recent(Tail(times), now, seconds)

\* RateLimiter.get_remaining: the requests left to the pair in its window
get_remaining(clients, now, client_id, endpoint) ==
  LET config == DEFAULT_CONFIGS[endpoint]
      entry == clients[<<client_id, endpoint>>]
  IN IF entry = NoEntry \/ now - entry.window_start >= config.seconds
     THEN config.requests
     ELSE IF config.requests - entry.count > 0
          THEN config.requests - entry.count
          ELSE 0

\* the limiter after check_rate_limit(client_id, endpoint), with the
\* admission recorded
Checked(lim, client_id, endpoint) ==
  LET r == is_allowed(lim.clients, lim.now, client_id, endpoint)
      k == <<client_id, endpoint>>
  IN [allowed |-> r.allowed,
      lim |-> [lim EXCEPT !.clients = r.clients,
                          !.admitted[k] = IF r.allowed
                                          THEN Append(@, lim.now)
                                          ELSE @]]

\* a pair's counter is followed until it is MaxOverrun over its limit
Countable(lim, client_id, endpoint) ==
  LET config == DEFAULT_CONFIGS[endpoint]
      entry == lim.clients[<<client_id, endpoint>>]
  IN \/ entry.count < config.requests + MaxOverrun
     \/ lim.now - entry.window_start >= config.seconds

ServiceFrame ==
  UNCHANGED <<backend, volume_path, head, mirror, states, transitions, current_ptr,
              db_lock, flag, volume, tree, call, last, hist>>

\* RateLimiter.check_rate_limit called on its own
CheckRateLimit(client_id, endpoint) ==
  /\ Countable(limiter, client_id, endpoint)
  /\ limiter' = Checked(limiter, client_id, endpoint).lim
  /\ ServiceFrame

\* time.time() moves on by TickStep seconds
Tick ==
  /\ limiter.now + TickStep <= MaxTime
  /\ limiter' =
       [limiter EXCEPT
          !.now = @ + TickStep,
          !.admitted = [k \in Clients \X Endpoints |->
                          Recent(limiter.admitted[k], limiter.now + TickStep,
                                 DEFAULT_CONFIGS[k[2]].seconds)]]
  /\ ServiceFrame

GenesisFailures == {"none", "clone", "init_repo", "create", "flag"}
JumpTargets == (-1)..MaxStateNumber

Next ==
  \/ \E p \in Callers, is_repo \in BOOLEAN, fail \in GenesisFailures :
        Genesis(p, is_repo, fail) /\ UNCHANGED limiter
  \/ \E p \in Callers, user_prompt \in PromptInputs :
        NstStart(p, user_prompt) /\ UNCHANGED limiter
  \/ \E p \in Callers, outcome \in {"ok", "locked", "error"} : NstStateBegin(p, outcome)
  \/ \E p \in Callers : NstStateCommit(p)
  \/ \E p \in Callers, t \in JumpTargets, user_prompt \in JumpPrompts :
        JumpStart(p, t, user_prompt) /\ UNCHANGED limiter
  \/ \E p \in Callers, outcome \in {"ok", "locked", "error"} : EdgeBegin(p, outcome)
  \/ \E p \in Callers, sync_ok \in BOOLEAN : EdgeCommit(p, sync_ok)
  \/ \E p \in Callers, outcome \in {"ok", "locked", "error"} : NstRollback(p, outcome)

Spec == Init /\ [][Next]_vars

SpecAnyVolume == InitAnyVolume /\ [][Next]_vars

\* the service calls while the user works on the project files
NextEdit ==
  \/ Next
  \/ \E path \in Paths, v \in TreeValues : EditTree(path, v)
  \/ \E branch \in Branches : Checkout(branch)

SpecEdit == Init /\ [][NextEdit]_vars

\* the state repository called directly, as its tests do: create of a State
\* numbered n whose hash field is the hash for number k, and create_next
RepoCreate(n, k, user_prompt) ==
  /\ LET h == generate_state_hash(user_prompt, "main", BlankDiff, k)
         r == Create(backend, states, n,
                     NewRow(user_prompt, "main", BlankDiff, h, EmptyMap, EmptyMap))
     IN /\ states' = r.st
        /\ last' = [NoRet EXCEPT !.op = "create", !.success = r.ok,
                                 !.state_number = n]
  /\ UNCHANGED <<backend, volume_path, head, mirror, limiter, transitions, current_ptr, db_lock,
                 flag, volume, tree, call, hist>>

RepoCreateNext(user_prompt) ==
  /\ NextStateNumber(states) <= MaxStateNumber
  /\ LET r == CreateNext(backend, states, user_prompt, "main", BlankDiff,
                         EmptyMap, EmptyMap)
     IN /\ states' = r.st
        /\ last' = [NoRet EXCEPT !.op = "create_next", !.success = r.ok,
                                 !.state_number = r.n]
  /\ UNCHANGED <<backend, volume_path, head, mirror, limiter, transitions, current_ptr, db_lock,
                 flag, volume, tree, call, hist>>

RepoPrompts == { <<"o","k">>, <<"a">> }

NextRepo ==
  \/ \E n \in 0..MaxStateNumber, k \in 0..MaxStateNumber, user_prompt \in RepoPrompts :
        RepoCreate(n, k, user_prompt)
  \/ \E user_prompt \in RepoPrompts : RepoCreateNext(user_prompt)

SpecRepo == Init /\ [][NextRepo]_vars

\* the same repository call put to the repository of the configured backend
\* and to that of the other one, each on its own storage, both empty at first
Other(b) == IF b = "sqlite" THEN "neo4j" ELSE "sqlite"

RepoResult(op, success, n, value) ==
  [NoRet EXCEPT !.op = op, !.success = success, !.state_number = n,
                !.value = value]

BothFrame ==
  UNCHANGED <<backend, volume_path, head, limiter, transitions, current_ptr,
              db_lock, flag, volume, tree, call, hist>>

\* create(State(n, ...)) whose hash field is the hash for number k
BothCreate(n, k, user_prompt) ==
  /\ LET h == generate_state_hash(user_prompt, "main", BlankDiff, k)
         row == NewRow(user_prompt, "main", BlankDiff, h, EmptyMap, EmptyMap)
         r == Create(backend, states, n, row)
         m == Create(Other(backend), mirror.states, n, row)
     IN /\ states' = r.st
        /\ last' = RepoResult("create", r.ok, n, {})
        /\ mirror' = [mirror EXCEPT !.states = m.st,
                                    !.result = RepoResult("create", m.ok, n, {})]
  /\ BothFrame

BothCreateNext(user_prompt) ==
  /\ NextStateNumber(states) <= MaxStateNumber
  /\ NextStateNumber(mirror.states) <= MaxStateNumber
  /\ LET r == CreateNext(backend, states, user_prompt, "main", BlankDiff,
                         EmptyMap, EmptyMap)
         m == CreateNext(Other(backend), mirror.states, user_prompt, "main",
                         BlankDiff, EmptyMap, EmptyMap)
     IN /\ states' = r.st
        /\ last' = RepoResult("create_next", r.ok, r.n, {})
        /\ mirror' = [mirror EXCEPT
                        !.states = m.st,
                        !.result = RepoResult("create_next", m.ok, m.n, {})]
  /\ BothFrame

\* get_current: the number of the State returned, NoState for None
BothGetCurrent ==
  /\ LET r == GetCurrent(backend, states, current_ptr)
         m == GetCurrent(Other(backend), mirror.states, mirror.current_ptr)
     IN /\ last' = RepoResult("get_current", r # NoState, r, {})
        /\ mirror' = [mirror EXCEPT
                        !.result = RepoResult("get_current", m # NoState, m, {})]
  /\ UNCHANGED states
  /\ BothFrame

BothCount ==
  /\ last' = RepoResult("count", TRUE, Count(states), {})
  /\ mirror' = [mirror EXCEPT
                  !.result = RepoResult("count", TRUE, Count(mirror.states), {})]
  /\ UNCHANGED states
  /\ BothFrame

\* delete(n): True when a row or node was removed (no edges are stored in
\* these runs)
BothDelete(n) ==
  /\ states' = Delete(states, n)
  /\ last' = RepoResult("delete", Exists(states, n), n, {})
  /\ mirror' = [mirror EXCEPT
                  !.states = Delete(mirror.states, n),
                  !.result = RepoResult("delete", Exists(mirror.states, n), n, {})]
  /\ BothFrame

BothPrompts == { <<"o","k">> }

NextBoth ==
  \/ \E n \in 0..MaxStateNumber, k \in 0..MaxStateNumber, user_prompt \in BothPrompts :
        BothCreate(n, k, user_prompt)
  \/ \E user_prompt \in BothPrompts : BothCreateNext(user_prompt)
  \/ BothGetCurrent
  \/ BothCount
  \/ \E n \in 0..MaxStateNumber : BothDelete(n)

SpecBoth == Init /\ [][NextBoth]_vars

\* the service calls together with a genesis whose git command times out
NextTimeout ==
  \/ Next
  \/ \E p \in Callers : Genesis(p, TRUE, "get_current_branch") /\ UNCHANGED limiter

SpecTimeout == Init /\ [][NextTimeout]_vars

\* init_manager.set_initialized on a volume directory vol whose flag file
\* exists or not (f): the directory is made when missing, then the flag file
\* is touched or unlinked
set_initialized(vol, f, initialized) ==
  [ok |-> TRUE, volume |-> [vol EXCEPT !.exists = TRUE], flag |-> initialized]

\* set_initialized(v, True) followed by set_initialized(v, False), as
\* test_toggle_initialized does, on the configured volume
ToggleInitialized ==
  /\ LET on == set_initialized(volume, flag, TRUE)
         off == set_initialized(on.volume, on.flag, FALSE)
     IN /\ volume' = off.volume
        /\ flag' = off.flag
        /\ last' = RepoResult("toggle_initialized", on.ok /\ off.ok, NoState, {})
  /\ UNCHANGED <<backend, volume_path, head, mirror, limiter, states, transitions,
                 current_ptr, db_lock, tree, call, hist>>

NextFlag ==
  \/ Next
  \/ ToggleInitialized

SpecFlag == Init /\ [][NextFlag]_vars

\* a ConsistencyIssue, without its message
Issue(severity, category, auto_fixable, fix_action) ==
  [severity |-> severity, category |-> category,
   auto_fixable |-> auto_fixable, fix_action |-> fix_action]

\* ConsistencyChecker._check_initialization_flag: a missing volume is
\* reported and ends the check; else snapshots without the flag are an
\* auto-fixable error
check_initialization_flag(st, f, vol) ==
  IF ~vol.exists
  THEN {Issue("critical", "volume", FALSE, "")}
  ELSE IF Count(st) > 0 /\ ~f
  THEN {Issue("error", "filesystem", TRUE, "recreate_flag")}
  ELSE {}

\* ConsistencyChecker._check_database_accessible, db_file telling whether the
\* file at settings.sqlite_path exists
check_database_accessible(db_file) ==
  IF ~db_file THEN {Issue("critical", "db", FALSE, "")} ELSE {}

\* ConsistencyChecker._check_volume_path
check_volume_path(vol) ==
  IF ~vol.exists
  THEN {Issue("critical", "volume", FALSE, "")}
  ELSE IF ~vol.codebase
  THEN {Issue("warning", "volume", FALSE, "")}
  ELSE {}

\* ConsistencyChecker._check_current_state_pointer
check_current_state_pointer(b, st, ptr) ==
  IF GetCurrent(b, st, ptr) = NoState /\ Count(st) > 0
  THEN {Issue("error", "state_pointer", TRUE, "reset_current_to_latest")}
  ELSE {}

\* ConsistencyChecker._check_state_sequence: nothing on empty storage; else a
\* warning for gaps between the least and the greatest number and a critical
\* issue when state 0 is not among them
check_state_sequence(st) ==
  IF DOMAIN st = {}
  THEN {}
  ELSE (IF \E n \in MinOf(DOMAIN st)..MaxOf(DOMAIN st) : n \notin DOMAIN st
        THEN {Issue("warning", "db", FALSE, "")} ELSE {})
       \cup (IF 0 \notin DOMAIN st
             THEN {Issue("critical", "db", FALSE, "")} ELSE {})

\* ConsistencyChecker.check_all: the issues of the five checks
check_all(b, st, ptr, f, vol, db_file) ==
  check_initialization_flag(st, f, vol)
  \cup check_database_accessible(db_file)
  \cup check_volume_path(vol)
  \cup check_current_state_pointer(b, st, ptr)
  \cup check_state_sequence(st)

\* whether the file at settings.sqlite_path exists: the SQLite repositories
\* created it with their engine; with Neo4j it may or may not be there
DbFile(b) == IF b = "sqlite" THEN {TRUE} ELSE BOOLEAN

\* the check_consistency tool: check_all on the configured storage and volume
CheckConsistency(db_file) ==
  /\ \A q \in Callers : ~Busy(q)
  /\ db_file \in DbFile(backend)
  /\ last' = RepoResult("check_consistency", TRUE, NoState,
                        check_all(backend, states, current_ptr, flag, volume,
                                  db_file))
  /\ UNCHANGED <<backend, volume_path, head, mirror, limiter, states, transitions,
                 current_ptr, db_lock, flag, volume, tree, call, hist>>

\* init_manager.set_initialized(volume, True) called on its own
SetInitialized ==
  /\ \A q \in Callers : ~Busy(q)
  /\ LET on == set_initialized(volume, flag, TRUE)
     IN /\ volume' = on.volume
        /\ flag' = on.flag
        /\ last' = RepoResult("set_initialized", on.ok, NoState, {})
  /\ UNCHANGED <<backend, volume_path, head, mirror, limiter, states, transitions,
                 current_ptr, db_lock, tree, call, hist>>

NextCheck ==
  \/ Next
  \/ SetInitialized
  \/ \E db_file \in BOOLEAN : CheckConsistency(db_file)

SpecCheck == Init /\ [][NextCheck]_vars

\* compute_changes_since_last_state and the reconstruction fold called on
\* their own, as test_delta_storage does: the project tree holds any of the
\* files of DeltaPaths with either digest, and the baseline is any such map
DeltaPaths == {"file1.py", "file2.py"}

Digests == {"h1", "h2"}

FingerprintMaps ==
  UNION { [d -> Digests] : d \in SUBSET DeltaPaths }

InitDelta ==
  /\ backend \in Backends
  /\ volume_path = [abs |-> TRUE, parts |-> <<"vol">>]
  /\ states = EmptyMap
  /\ transitions = {}
  /\ current_ptr = NoPtr
  /\ db_lock = NoLock
  /\ flag = FALSE
  /\ \E b \in FingerprintMaps :
        volume = [exists |-> TRUE, codebase |-> TRUE, hashes |-> b]
  /\ tree \in [DeltaPaths -> Digests \cup {Absent}]
  /\ head = "main"
  /\ limiter = InitLimiter
  /\ mirror = [states |-> EmptyMap, transitions |-> {}, current_ptr |-> NoPtr,
               result |-> NoRet]
  /\ call = [p \in Callers |-> IdleCall]
  /\ last = NoRet
  /\ hist = [max_returned |-> NoState, jumps |-> 0, edits |-> 0,
             trees |-> EmptyMap]

DeltaFrame ==
  UNCHANGED <<backend, volume_path, head, mirror, limiter, states, transitions,
              current_ptr, db_lock, flag, volume, tree, call, hist>>

\* compute_changes_since_last_state(project, last_state_file_hashes =
\* the hashes of the volume copy, is_genesis = False): the delta returned
ComputeChanges ==
  /\ last' = RepoResult("compute_changes", TRUE, NoState,
                        {ComputeDelta(volume.hashes, HashesOf(tree))})
  /\ DeltaFrame

\* the delta of compute_changes applied to the baseline it was computed
\* against, as the loop of _reconstruct_file_hashes applies a stored delta
ReconstructChanges ==
  /\ last' = RepoResult("reconstruct", TRUE, NoState,
                        {ApplyDelta(volume.hashes,
                                    ComputeDelta(volume.hashes, HashesOf(tree)))})
  /\ DeltaFrame

NextDelta ==
  \/ ComputeChanges
  \/ ReconstructChanges

SpecDelta == InitDelta /\ [][NextDelta]_vars

\* the service calls together with jumps that carry a prompt of their own
CallerJumpPrompts == { <<"o","k">>, <<"a",";">> }

NextPrompt ==
  \/ Next
  \/ \E p \in Callers, t \in JumpTargets, user_prompt \in CallerJumpPrompts :
        JumpStart(p, t, user_prompt) /\ UNCHANGED limiter

SpecPrompt == Init /\ [][NextPrompt]_vars

\* the service calls, jumps that carry a prompt of their own, and
\* new_state_transition calls whose prompt is the placeholder text
NextPlaceholder ==
  \/ NextPrompt
  \/ \E p \in Callers : NstStart(p, ARBITRARY_PROMPT) /\ UNCHANGED limiter

SpecPlaceholder == Init /\ [][NextPlaceholder]_vars

\* the service calls together with the readers
NextRead ==
  \/ Next
  \/ \E p \in Callers, reader \in Readers, n \in ReadNumbers, text \in ReadTexts :
        Read(p, reader, n, text)

SpecRead == Init /\ [][NextRead]_vars

\* the service calls, with arbitrary_state_transition also called while a
\* new_state_transition of another caller is in flight
TrackTargets == {0, 1}
NextTrack ==
  \/ Next
  \/ \E p \in Callers, t \in TrackTargets :
        JumpCall(p, t, <<>>) /\ UNCHANGED limiter

SpecTrack == Init /\ [][NextTrack]_vars

\* the service calls together with the repair_consistency tool
NextRepair ==
  \/ Next
  \/ \E p \in Callers : RepairCheck(p)
  \/ \E p \in Callers, outcome \in {"ok", "locked", "error"} : RepairFix(p, outcome)

SpecRepair == Init /\ [][NextRepair]_vars

\* ------------------------------------------------------------------ claims
\* the rate limiter called directly, as its tests do, while time moves on
LimiterCalls ==
  {<<"default", "arbitrary_state_transition">>, <<"default", "genesis">>,
   <<"other", "genesis">>}

NextLimiter ==
  \/ \E k \in LimiterCalls : CheckRateLimit(k[1], k[2])
  \/ Tick

SpecLimiter == Init /\ [][NextLimiter]_vars

\* ------------------------------------------------------------------- tools
\* the record a tool returns when _handle_rate_limit hands back the error
RateLimited(endpoint) ==
  [NoRet EXCEPT !.op = endpoint, !.msg = "rate_limit_exceeded"]

\* if rate_result: return rate_result
ReturnRateResult(endpoint) ==
  /\ last' = RateLimited(endpoint)
  /\ UNCHANGED <<backend, volume_path, head, mirror, states, transitions, current_ptr,
                 db_lock, flag, volume, tree, call, hist>>

\* tools.genesis: the rate check, then StateService.genesis
genesis_tool(p, client_id, is_repo, fail) ==
  /\ ~Busy(p)
  /\ Countable(limiter, client_id, "genesis")
  /\ LET c == Checked(limiter, client_id, "genesis")
     IN /\ limiter' = c.lim
        /\ IF c.allowed
           THEN Genesis(p, is_repo, fail)
           ELSE ReturnRateResult("genesis")

\* mutant of new_state_transition_tool: the rate result is not looked at
new_state_transition_tool_m(p, client_id, user_prompt) ==
  /\ ~Busy(p)
  /\ Countable(limiter, client_id, "new_state_transition")
  /\ LET c == Checked(limiter, client_id, "new_state_transition")
     IN /\ limiter' = c.lim
        /\ NstStart(p, user_prompt)

\* tools.new_state_transition: the rate check, then (after a read of the
\* current state for the audit log) StateService.new_state_transition
new_state_transition_tool(p, client_id, user_prompt) ==
  /\ ~Busy(p)
  /\ Countable(limiter, client_id, "new_state_transition")
  /\ LET c == Checked(limiter, client_id, "new_state_transition")
     IN /\ limiter' = c.lim
        /\ IF c.allowed
           THEN NstStart(p, user_prompt)
           ELSE ReturnRateResult("new_state_transition")

\* tools.arbitrary_state_transition: the rate check, then
\* StateService.arbitrary_state_transition
arbitrary_state_transition_tool(p, client_id, next_state, user_prompt) ==
  /\ ~Busy(p)
  /\ Countable(limiter, client_id, "arbitrary_state_transition")
  /\ LET c == Checked(limiter, client_id, "arbitrary_state_transition")
     IN /\ limiter' = c.lim
        /\ IF c.allowed
           THEN JumpStart(p, next_state, user_prompt)
           ELSE ReturnRateResult("arbitrary_state_transition")

\* one caller working through the tools as the server registers them
\* (client_id "default"), all within one window of the limiter
ToolCaller == "A"

NextTools ==
  \/ \E is_repo \in BOOLEAN, fail \in GenesisFailures :
        genesis_tool(ToolCaller, "default", is_repo, fail)
  \/ \E user_prompt \in PromptInputs :
        new_state_transition_tool(ToolCaller, "default", user_prompt)
  \/ \E t \in JumpTargets, user_prompt \in JumpPrompts :
        arbitrary_state_transition_tool(ToolCaller, "default", t, user_prompt)
  \/ \E outcome \in {"ok", "locked", "error"} : NstStateBegin(ToolCaller, outcome)
  \/ NstStateCommit(ToolCaller)
  \/ \E outcome \in {"ok", "locked", "error"} : EdgeBegin(ToolCaller, outcome)
  \/ \E sync_ok \in BOOLEAN : EdgeCommit(ToolCaller, sync_ok)
  \/ \E outcome \in {"ok", "locked", "error"} : NstRollback(ToolCaller, outcome)

SpecTools == Init /\ [][NextTools]_vars

\* the tools that read the current state, and the endpoint name each hands
\* to _handle_rate_limit
ReaderTools == {"get_current_state_number", "get_current_state_info"}
RateKey(tool) ==
  IF tool \in ReaderTools THEN "get_current_state_info" ELSE tool

\* the reader of the service each of the two tools calls
ReaderOf(tool) ==
  IF tool = "get_current_state_info" THEN "get_current_state" ELSE tool

\* the tools get_current_state_number and get_current_state_info: the rate
\* check, then the reader of the service
ReaderTool(client_id, tool) ==
  /\ call[ToolCaller].pc = "idle"
  /\ Countable(limiter, client_id, RateKey(tool))
  /\ LET r == Checked(limiter, client_id, RateKey(tool))
     IN /\ limiter' = r.lim
        /\ last' = IF ~r.allowed
                   THEN RateLimited(tool)
                   ELSE IF ~is_initialized(flag)
                   THEN [NoRet EXCEPT !.op = tool, !.msg = "not initialized",
                                      !.value = EmptyResult(ReaderOf(tool))]
                   ELSE [NoRet EXCEPT !.op = tool, !.success = TRUE,
                                      !.msg = "retrieved",
                                      !.value = ReadValue(ReaderOf(tool), NoState, <<>>)]
  /\ UNCHANGED <<backend, volume_path, head, mirror, states, transitions,
                 current_ptr, db_lock, flag, volume, tree, call, hist>>

\* genesis, and the two tools called by either client within one window
NextReaderTools ==
  \/ \E is_repo \in BOOLEAN :
        Genesis(ToolCaller, is_repo, "none") /\ UNCHANGED limiter
  \/ \E client_id \in Clients, tool \in ReaderTools : ReaderTool(client_id, tool)

SpecReaderTools == Init /\ [][NextReaderTools]_vars

Quiescent == \A p \in Callers : ~Busy(p)

\* C1: once every call has returned, the stored state numbers are exactly
\* 0..k for some k: a snapshot n exists only if all of 0..n-1 exist.
C1_DenseStateNumbers ==
  Quiescent => \A n \in DOMAIN states : \A k \in 0..n : k \in DOMAIN states

\* C2: in every storage state, also one a reader sees while a call is
\* running, each snapshot n >= 1 has a stored edge whose next_state is n.
C2_SnapshotWithEdge ==
  \A n \in DOMAIN states :
     n >= 1 => \E t \in transitions : t.next_state = n

\* C3: when two new_state_transition calls that overlap each other and no
\* other call both return success, their state numbers differ by exactly 1
\* (so they are never equal).  Stated on the result of the second to return.
C3_OverlappingDifferByOne ==
  (last.op = "nst" /\ last.success /\ last.peer # NoState)
    => (last.state_number = last.peer + 1 \/ last.peer = last.state_number + 1)

C3_Witness ==
  last.op = "nst" /\ last.success /\ last.peer # NoState

\* C4: on the relational backend a new_state_transition call that met
\* 'database is locked' while another call held the write lock returns
\* success in the end.
C4_LockedCallSucceeds ==
  (backend = "sqlite" /\ last.op = "nst" /\ last.hit_lock) => last.success

\* C5: a successful new_state_transition returns a number strictly greater
\* than every number a successful new_state_transition had returned before
\* it was invoked.
C5_MonotoneAllocation ==
  (last.op = "nst" /\ last.success /\ last.floor # NoState)
    => last.state_number > last.floor

\* a success that follows an earlier success and a jump back from it
C5_Witness ==
  /\ last.op = "nst" /\ last.success /\ last.floor # NoState
  /\ \E t \in transitions :
        t.current_state = last.floor /\ t.next_state < t.current_state

\* C6: after every step the stored transition ids are exactly 1..m, m the
\* number of stored edges, and an edge a step adds has a larger id than
\* every edge stored before it.
C6_DenseTransitionIds ==
  [][ /\ {t.transition_id : t \in transitions'} = 1..Cardinality(transitions')
      /\ \A t \in transitions' \ transitions :
            \A u \in transitions : t.transition_id > u.transition_id ]_vars

C6_Witness ==
  /\ Cardinality(transitions) >= 3
  /\ \E t \in transitions : t.next_state < t.current_state

\* C7: once arbitrary_state_transition(t) has returned success, and until
\* another call returns, get_current reports t.
C7_JumpMovesCurrent ==
  (last.op = "jump" /\ last.success)
    => GetCurrent(backend, states, current_ptr) = last.target

\* the fingerprint data of a stored snapshot
Fingerprint(row) == <<row.file_hashes, row.file_hash_deltas, row.git_diff_info>>

SameSnapshots ==
  /\ DOMAIN states' = DOMAIN states
  /\ \A n \in DOMAIN states : Fingerprint(states'[n]) = Fingerprint(states[n])

\* C8: a successful arbitrary_state_transition(t) adds exactly one edge,
\* from the current state to t, and no step of the call changes the set of
\* snapshots or any snapshot's file_hashes, file_hash_deltas, git_diff_info.
C8_JumpAddsOneEdge ==
  [][ \A p \in Callers :
        /\ (call'[p].op = "jump" /\ call'[p].pc # "idle")
             => (SameSnapshots /\ transitions' = transitions)
        /\ (call[p].op = "jump" /\ call'[p].pc = "idle" /\ last'.success)
             => /\ SameSnapshots
                /\ Cardinality(transitions') = Cardinality(transitions) + 1
                /\ \E e \in transitions' \ transitions :
                      /\ transitions' = transitions \cup {e}
                      /\ e.current_state = GetCurrent(backend, states, current_ptr)
                      /\ e.next_state = last'.target ]_vars

C8_Witness ==
  /\ last.op = "jump" /\ last.success
  /\ \E e \in transitions :
        e.next_state = last.target /\ e.current_state > e.next_state

\* C9: no stored edge has current_state = next_state (a jump to the current
\* state is rejected and writes nothing).
C9_NoSelfLoop ==
  \A t \in transitions : t.current_state # t.next_state

\* the targets C10 is about, judged on the storage the call finds
BadTarget(t) ==
  t < 0 \/ t >= Count(states) \/ t \notin DOMAIN states

\* C10: arbitrary_state_transition(t) with t < 0, t >= count or t not stored
\* returns failure at once and leaves snapshots, edges and the current
\* pointer as they were.
C10_BadTargetRejected ==
  [][ \A p \in Callers, t \in JumpTargets, user_prompt \in JumpPrompts :
        (BadTarget(t) /\ JumpStart(p, t, user_prompt))
          => /\ call'[p].pc = "idle"
             /\ last'.op = "jump" /\ ~last'.success /\ last'.target = t
             /\ UNCHANGED <<states, transitions, current_ptr>> ]_vars

\* a jump to a number below the count that is not stored was rejected
C10_Witness ==
  /\ last.op = "jump" /\ ~last.success /\ last.msg = "state not found"
  /\ last.target >= 0 /\ last.target < Count(states)
  /\ last.target \notin DOMAIN states

\* C11: right after a new_state_transition returns success with the greatest
\* stored number, and no call is running, get_current reports the snapshot it
\* created, also when the current pointer had been set before (here by the
\* pointer repair).
C11_CurrentIsNewSnapshot ==
  (last.op = "nst" /\ last.success /\ Quiescent
     /\ last.state_number = MaxOf(DOMAIN states))
    => GetCurrent(backend, states, current_ptr) = last.state_number

\* C12: for every stored snapshot n (genesis stored), the reconstruction of
\* the service for n, the genesis file_hashes with the file_hash_deltas of
\* 1..n applied as the repository returns them, is the fingerprint map of the
\* working tree read when n was created.  Stated for the SQLite backend (on
\* Neo4j the genesis file_hashes are not stored and snapshot 0 fails it).
C12_FoldYieldsTree ==
  (backend = "sqlite" /\ Quiescent /\ Exists(states, 0))
    => \A n \in (DOMAIN states) \cap (DOMAIN hist.trees) :
         ReconstructFileHashes(backend, states, n) = hist.trees[n]

\* what a fingerprint map says of a path: its digest, or Absent
DigestAt(hashes, path) == IF path \in DOMAIN hashes THEN hashes[path] ELSE Absent

\* C13: a file whose content is the same in the working trees of snapshots
\* n-1 and n (n-1 = genesis included) is in none of the added, modified and
\* deleted lists of snapshot n (checked while no call is running).
C13_UnchangedFileNotListed ==
  \A n \in DOMAIN states :
    (Quiescent /\ n >= 1 /\ n \in DOMAIN hist.trees
       /\ (n - 1) \in DOMAIN hist.trees /\ Exists(states, n - 1))
      => \A path \in Paths :
           DigestAt(hist.trees[n - 1], path) = DigestAt(hist.trees[n], path)
             => path \notin (states[n].git_diff_info.added
                               \cup states[n].git_diff_info.modified
                               \cup states[n].git_diff_info.deleted)

\* C14: in a project that is a git repository (genesis stored the branch git
\* reported), the snapshot a new_state_transition creates carries the branch
\* checked out in the project during the call.
C14_BranchFromFilesystem ==
  [][ \A p \in Callers :
        (call[p].pc = "state_tx" /\ call'[p].pc = "edge_begin"
           /\ Exists(states, 0) /\ states[0].branch_name \in Branches)
          => states'[call'[p].newnum].branch_name = head ]_vars

\* C15: a step of new_state_transition, arbitrary_state_transition or a
\* reader taken while the init flag is unset ends the call with its failure
\* or empty result and leaves the stored snapshots, edges, current pointer,
\* volume and flag as they were.
C15_UninitializedRefused ==
  [][ (~flag /\ last'.op # "genesis")
        => (/\ ~last'.success
            /\ last'.msg = "not initialized"
            /\ last'.value = EmptyResult(last'.op)
            /\ \A p \in Callers : call'[p].pc = "idle"
            /\ UNCHANGED <<states, transitions, current_ptr, volume, flag>>) ]_vars

\* storage holds a snapshot (a genesis failed after persisting it), the flag
\* is unset, and get_current_state has just been refused
C15_Witness ==
  /\ ~flag
  /\ Count(states) > 0
  /\ last.op = "get_current_state"
  /\ last.msg = "not initialized"

\* C16: a genesis called while the init flag is set returns failure with
\* 'already initialized' and leaves the stored snapshots, edges, current
\* pointer, volume directory and flag as they were.
C16_GenesisTwiceRefused ==
  [][ (flag /\ \E p \in Callers, is_repo \in BOOLEAN, fail \in GenesisFailures :
                  Genesis(p, is_repo, fail))
        => (/\ ~last'.success
            /\ last'.op = "genesis"
            /\ last'.msg = "already initialized"
            /\ UNCHANGED <<states, transitions, current_ptr, volume, flag>>) ]_vars

\* genesis has been refused on a volume that holds two snapshots
C16_Witness ==
  /\ flag
  /\ Count(states) >= 2
  /\ last.op = "genesis"
  /\ last.msg = "already initialized"

\* C17: a genesis on an uninitialized volume whose path, as the file system
\* finds it, is the project path or inside it returns failure with the
\* 'must be outside the project path' message, and creates no volume
\* directory, stores no snapshot and leaves the flag unset.
C17_VolumeInsideRefused ==
  [][ (/\ ~flag
       /\ IsRelativeTo(Resolve(volume_path), ProjectPath)
       /\ \E p \in Callers, is_repo \in BOOLEAN, fail \in GenesisFailures :
             Genesis(p, is_repo, fail))
        => (/\ ~last'.success
            /\ last'.msg = "volume inside project"
            /\ UNCHANGED <<states, transitions, current_ptr, volume, flag>>) ]_vars

\* C18: a genesis on an uninitialized volume that returns failure leaves no
\* snapshot it wrote, no volume copy it made, and the flag unset.
C18_FailedGenesisRolledBack ==
  [][ (/\ ~flag
       /\ \E p \in Callers, is_repo \in BOOLEAN, fail \in GenesisFailures :
             Genesis(p, is_repo, fail)
       /\ ~last'.success)
        => (/\ states' = states
            /\ volume'.codebase => volume.codebase
            /\ ~flag') ]_vars

\* C19: every stored snapshot carries the hash of its own state_number,
\* user_prompt, branch_name and git_diff_info.
C19_HashOfOwnFields ==
  \A n \in DOMAIN states :
    states[n].hash = generate_state_hash(states[n].user_prompt,
                                         states[n].branch_name,
                                         states[n].git_diff_info, n)

\* genesis, two sequential transitions and a jump have succeeded
C19_Witness ==
  /\ Count(states) = 3
  /\ last.op = "jump"
  /\ last.success

\* C20: no two stored snapshots have the same hash, after any sequence of
\* create and create_next calls on the state repository.
C20_HashUnique ==
  \A m \in DOMAIN states : \A n \in DOMAIN states :
    m # n => states[m].hash # states[n].hash

\* a create of a State whose hash is already stored under another number has
\* returned and stored no row for its number
C20_Witness ==
  /\ last.op = "create"
  /\ ~Exists(states, last.state_number)
  /\ Count(states) >= 1

\* C21: a step of any operation leaves the fields of every snapshot that is
\* stored before and after it as they were.
C21_SnapshotsImmutable ==
  [][ \A n \in (DOMAIN states) \cap (DOMAIN states') : states'[n] = states[n] ]_vars

HasInjection(prompt) == \E i \in 1..Len(prompt) : prompt[i] \in INJECTION_CHARS

\* C22: no user_prompt stored on a snapshot or on an edge contains one of
\* ; & | ` $ or newline.
C22_NoInjectionStored ==
  /\ \A n \in DOMAIN states : ~HasInjection(states[n].user_prompt)
  /\ \A t \in transitions : ~HasInjection(t.user_prompt)

\* C24: for every client and endpoint, the calls the limiter admitted within
\* any interval of its window length number at most the configured requests.
C24_SlidingWindow ==
  \A k \in Clients \X Endpoints :
    Len(Recent(limiter.admitted[k], limiter.now, DEFAULT_CONFIGS[k[2]].seconds))
      <= DEFAULT_CONFIGS[k[2]].requests

\* a step in which the limiter refused a call: the counter of a pair moved
\* on within its window to a value above the pair's limit
RejectedStep ==
  \E k \in Clients \X Endpoints :
    /\ limiter'.clients[k].window_start = limiter.clients[k].window_start
    /\ limiter'.clients[k].count = limiter.clients[k].count + 1
    /\ limiter'.clients[k].count > DEFAULT_CONFIGS[k[2]].requests

AutoFixable(b, st, ptr, f, vol) ==
  (IF vol.exists /\ Count(st) > 0 /\ ~f THEN {"recreate_flag"} ELSE {})
  \cup (IF GetCurrent(b, st, ptr) = NoState /\ Count(st) > 0
        THEN {"reset_current_to_latest"} ELSE {})

\* C25: when repair_consistency has run check_all and auto_repair, a
\* check_all made right afterwards reports no auto-fixable issue.
C25_RepairLeavesNothingFixable ==
  [][ (\E p \in Callers : call[p].pc = "repair_fix" /\ call'[p].pc = "idle")
        => AutoFixable(backend, states', current_ptr', flag', volume') = {} ]_vars

\* C26: whatever repository operations were put to both backends from empty
\* storage, the operation made last returned the same on both.
C26_BackendsAgree ==
  mirror.result = last

\* C27: every service call that has finished handed back a result; none let
\* an exception out to its caller.
C27_NoExceptionEscapes ==
  last.raised = ""

\* C28: on the relational backend a create_next that reports failure after
\* meeting 'database is locked' has been attempted more than once.
C28_LockedIsRetried ==
  [][ \A p \in Callers :
        (backend = "sqlite" /\ call[p].pc = "state_begin"
           /\ call'[p].pc = "idle" /\ last'.hit_lock)
          => call[p].attempt >= 1 ]_vars

\* C29: setting the init flag of a volume that has none and clearing it
\* again leaves the volume directory as it was before, a missing directory
\* included, with the flag absent.
C29_ToggleRestores ==
  [][ (~flag /\ last'.op = "toggle_initialized" /\ last.op # "toggle_initialized")
        => (volume' = volume /\ flag' = FALSE) ]_vars

\* C30: a new_state_transition that overlapped no other call and whose edge
\* insertion failed after its snapshot was inserted returns failure with the
\* 'rolled back' message, and storage then holds the snapshots and edges it
\* held before the call: the inserted snapshot is gone again.
C30_RolledBackRestores ==
  [][ \A p \in Callers :
        (call[p].pc = "rollback" /\ call'[p].pc = "idle" /\ call[p].overlaps = 0
           /\ \A q \in Callers \ {p} : ~Busy(q))
          => /\ ~last'.success
             /\ last'.msg = "state rolled back"
             /\ states' = Remove(states, call[p].newnum)
             /\ transitions' = transitions ]_vars

\* C31: the delta compute_changes returns for a baseline and a working tree
\* holds the current digest of every new or changed path, the tombstone for
\* every path of the baseline that is gone, and nothing for any other path.
C31_DeltaExact ==
  last.op = "compute_changes" =>
    \A d \in last.value :
      LET B == volume.hashes
          C == HashesOf(tree)
      IN /\ DOMAIN d \subseteq DeltaPaths
         /\ \A p \in DeltaPaths :
              IF p \in DOMAIN C
              THEN IF p \notin DOMAIN B \/ B[p] # C[p]
                   THEN p \in DOMAIN d /\ d[p] = C[p]
                   ELSE p \notin DOMAIN d
              ELSE IF p \in DOMAIN B
                   THEN p \in DOMAIN d /\ d[p] = Tombstone
                   ELSE p \notin DOMAIN d

\* a delta was returned for a tree with one file changed and one file gone
C31_Witness ==
  /\ last.op = "compute_changes"
  /\ volume.hashes = [p \in DeltaPaths |-> "h1"]
  /\ tree = [p \in DeltaPaths |-> IF p = "file1.py" THEN "h2" ELSE Absent]
  /\ \E d \in last.value : d["file2.py"] = Tombstone

\* C40: the delta compute_changes returns for baseline B and working tree C,
\* applied to B as the reconstruction fold applies a delta, yields C.
C40_DeltaRoundTrip ==
  last.op = "reconstruct" => last.value = {HashesOf(tree)}

\* the round trip was made for a baseline with a file the tree has lost and
\* a tree with a file the baseline lacks
C40_Witness ==
  /\ last.op = "reconstruct"
  /\ DOMAIN volume.hashes = {"file1.py"}
  /\ DOMAIN HashesOf(tree) = {"file2.py"}

\* C32: when a jump made with a valid prompt of the caller succeeds and the
\* prompt stored on its target is empty or the placeholder, the target read
\* back from storage afterwards carries the sanitized prompt of the caller.
C32_PlaceholderReplaced ==
  [][ \A p \in Callers :
        (/\ call[p].op = "jump" /\ call[p].pc = "edge_tx"
         /\ call'[p].pc = "idle" /\ last'.success
         /\ call[p].tprompt # ARBITRARY_PROMPT
         /\ sanitize_prompt(call[p].tprompt).ok
         /\ states[call[p].target].user_prompt \in {<<>>, ARBITRARY_PROMPT})
        => GetByNumber(backend, states', call[p].target).user_prompt
             = sanitize_prompt(call[p].tprompt).value ]_vars


\* C33: while no jump has been made, every stored edge leads from a snapshot
\* to the one numbered one higher, also when two new_state_transition calls
\* overlap.
C33_EdgesAreSuccessors ==
  hist.jumps = 0 =>
    \A t \in transitions : t.next_state = t.current_state + 1

\* C34: directly after a successful jump, track_transitions returns a list
\* of at most 5 edge ids whose first element is the id of the jump's edge.
C34_JumpIsMostRecent ==
  [][ \A p \in Callers :
        (/\ call[p].op = "jump" /\ call[p].pc = "edge_tx"
         /\ call'[p].pc = "idle" /\ last'.success)
        => LET ids == track_transitions(flag', transitions')
           IN /\ Len(ids) <= 5
              /\ Len(ids) >= 1
              /\ \E e \in transitions' \ transitions : ids[1] = e.transition_id ]_vars

\* C35: check_all reports an auto-fixable error whenever storage holds a
\* snapshot while the init flag is missing, and a critical issue whenever
\* snapshot 0 is absent from storage that holds snapshots or whose flag is
\* set, empty storage with the flag set included.
C35_MismatchReported ==
  [][ (last'.op = "check_consistency" /\ last' # last)
        => /\ (Count(states) > 0 /\ ~flag)
                 => \E i \in last'.value :
                       i.severity = "error" /\ i.auto_fixable
           /\ (0 \notin DOMAIN states /\ (flag \/ Count(states) > 0))
                 => \E i \in last'.value : i.severity = "critical" ]_vars

\* C36: a call of one of the tools by one client changes neither whether a
\* call by another client, or by the same client of the other tool, is
\* allowed, nor the remaining count of that other pair.
C36_PairsIndependent ==
  [][ \A c \in Clients, e \in ReaderTools :
        (/\ last'.op = e
         /\ limiter'.now = limiter.now
         /\ limiter'.clients[<<c, RateKey(e)>>] # limiter.clients[<<c, RateKey(e)>>])
        => \A c2 \in Clients, e2 \in ReaderTools :
             <<c2, e2>> # <<c, e>>
             => /\ is_allowed(limiter'.clients, limiter'.now, c2, RateKey(e2)).allowed
                     = is_allowed(limiter.clients, limiter.now, c2, RateKey(e2)).allowed
                /\ get_remaining(limiter'.clients, limiter'.now, c2, RateKey(e2))
                     = get_remaining(limiter.clients, limiter.now, c2, RateKey(e2)) ]_vars

\* C37: whenever genesis returns success, storage holds snapshot 0 with
\* file_hashes and file_hash_deltas both equal to the fingerprint map of the
\* project tree computed in that call, and the init flag is set.
C37_GenesisStoresFingerprints ==
  [][ (last'.op = "genesis" /\ last'.success /\ last' # last)
        => /\ 0 \in DOMAIN states'
           /\ states'[0].file_hashes = HashesOf(tree)
           /\ states'[0].file_hash_deltas = HashesOf(tree)
           /\ flag' ]_vars

\* C38: in every storage state, both endpoints of every stored edge are
\* stored snapshots.
C38_EdgesHaveEndpoints ==
  \A t \in transitions :
    t.current_state \in DOMAIN states /\ t.next_state \in DOMAIN states

\* C39: under the service operations alone, whenever the init flag is set,
\* snapshot 0 is in storage.
C39_FlagImpliesGenesis ==
  flag => 0 \in DOMAIN states

C39_Witness ==
  /\ flag
  /\ last.op = "nst"
  /\ last.msg = "state rolled back"
  /\ 0 \in DOMAIN states
  /\ 1 \notin DOMAIN states

====
